---- MODULE Spec2Model ----
(***************************************************************************)
(* A model of corepack's Engine (sources/Engine.ts) and of the cache       *)
(* command (sources/commands/Cache.ts): descriptor resolution, project     *)
(* spec discovery, the Last-Known-Good file and the default version.       *)
(*                                                                         *)
(* Version, range and tag strings are kept as strings, as in the source;   *)
(* the semver library is modelled by a parser over a finite universe of    *)
(* strings and by comparison and matching operators over the parsed form.  *)
(***************************************************************************)
EXTENDS Integers, Sequences, FiniteSets, TLC

(***************************************************************************)
(* Bounds of the model.                                                    *)
(***************************************************************************)
\* longest version list a registry answers with
MaxList == 2
\* most versions present in the install folder in an initial state
MaxInstalled == 1
\* the processes that activate a version at the same time
MaxProcs == 2

(***************************************************************************)
(* The universe of strings.                                                *)
(***************************************************************************)
\* what a registry lists and what an install folder is named after
PlainVersions == {"1.1.0", "2.0.0-rc.1", "2.0.0"}
\* exact versions carrying build metadata (a content hash)
HashedVersions == {"1.1.0+sha1.aa", "2.0.0+sha1.bb"}
\* an exact version older than every range the definitions declare
OldVersions == {"0.9.0"}
VersionStrings == PlainVersions \cup HashedVersions \cup OldVersions
RangeExprs == {"1.x", ">=2.0.0", "*"}
TagNames == {"latest", "next", "canary"}
UrlStrings == {"https://example.test/pm.tgz"}
RangeStrings == VersionStrings \cup RangeExprs \cup TagNames \cup UrlStrings

\* JavaScript's null and undefined, and the hash an install reports
Null == "<null>"
Undefined == "<undefined>"

(***************************************************************************)
(* semver: parsing.  A parsed version is major, minor, patch, a rank for   *)
(* the prerelease part (2: none, 1: "rc.1", 0: "0", the lowest prerelease) *)
(* and the build metadata, which no comparison reads.                      *)
(***************************************************************************)
SemVer(maj, min, pat, pre, build) ==
    [major |-> maj, minor |-> min, patch |-> pat, pre |-> pre, build |-> build]

\* new SemVer(s): the parsed version, for the strings that are versions
SemverParse(s) ==
    CASE s = "0.9.0"         -> SemVer(0, 9, 0, 2, "")
      [] s = "1.1.0"         -> SemVer(1, 1, 0, 2, "")
      [] s = "2.0.0-rc.1"    -> SemVer(2, 0, 0, 1, "")
      [] s = "2.0.0"         -> SemVer(2, 0, 0, 2, "")
      [] s = "1.1.0+sha1.aa" -> SemVer(1, 1, 0, 2, "sha1.aa")
      [] s = "2.0.0+sha1.bb" -> SemVer(2, 0, 0, 2, "sha1.bb")

\* semver/functions/valid: truthy exactly for a full version
semverValid(s) == s \in VersionStrings

Cmp(op, maj, min, pat, pre) ==
    [op |-> op, semver |-> SemVer(maj, min, pat, pre, "")]

\* new Range(s).set: the comparators of the (single) comparator set
RangeParse(s) ==
    CASE s = "1.x"    -> {Cmp(">=", 1, 0, 0, 2), Cmp("<", 2, 0, 0, 0)}
      [] s = ">=2.0.0" -> {Cmp(">=", 2, 0, 0, 2)}
      [] s = "*"      -> {Cmp(">=", 0, 0, 0, 2)}
      [] s \in VersionStrings ->
            LET v == SemverParse(s)
            IN  {Cmp("=", v.major, v.minor, v.patch, v.pre)}

\* semver/ranges/valid: truthy for a range expression and for a version
semverValidRange(s) == s \in RangeExprs \cup VersionStrings

\* SemVer.compare: -1, 0 or 1 by precedence; build metadata is not read
SemverCompare(a, b) ==
    CASE a.major # b.major -> IF a.major < b.major THEN -1 ELSE 1
      [] a.minor # b.minor -> IF a.minor < b.minor THEN -1 ELSE 1
      [] a.patch # b.patch -> IF a.patch < b.patch THEN -1 ELSE 1
      [] a.pre # b.pre     -> IF a.pre < b.pre THEN -1 ELSE 1
      [] OTHER             -> 0

\* semver/functions/rcompare on strings
semverRcompare(a, b) == SemverCompare(SemverParse(b), SemverParse(a))

\* Comparator.test
ComparatorTest(c, v) ==
    LET r == SemverCompare(v, c.semver)
    IN  CASE c.op = ">=" -> r >= 0
          [] c.op = "<"  -> r < 0
          [] c.op = "="  -> r = 0

\* Range.test: every comparator holds, and a prerelease version is let in
\* only by a comparator on the same major.minor.patch that has a prerelease
RangeTest(range, version) ==
    LET set == RangeParse(range)
        v == SemverParse(version)
    IN  /\ \A c \in set : ComparatorTest(c, v)
        /\ v.pre = 2 \/ \E c \in set :
              /\ c.semver.pre # 2
              /\ c.semver.major = v.major
              /\ c.semver.minor = v.minor
              /\ c.semver.patch = v.patch

StripPre(v) == [v EXCEPT !.pre = 2]

\* semverUtils.satisfiesWithPrereleases: the prerelease parts of the version
\* and of the comparators are cleared before the comparators are tested
satisfiesWithPrereleases(version, range) ==
    /\ semverValidRange(range)
    /\ version \in VersionStrings
    /\ \A c \in RangeParse(range) :
          ComparatorTest([c EXCEPT !.semver = StripPre(c.semver)],
                         StripPre(SemverParse(version)))

(***************************************************************************)
(* The definitions (config.json) and the supported package managers.       *)
(***************************************************************************)
SupportedPackageManagerSet == {"pnpm", "yarn"}
\* a name no definition exists for
OtherNames == {"bun"}
Names == SupportedPackageManagerSet \cup OtherNames

isSupportedPackageManager(name) == name \in SupportedPackageManagerSet

\* Object.keys(definition.ranges), in declaration order
RangeKeys(name) ==
    CASE name = "yarn" -> <<"1.x", ">=2.0.0">>
      [] name = "pnpm" -> <<"*", ">=2.0.0">>

\* the registry of definition.ranges[range]
getRegistryFromPackageManagerSpec(name, range) ==
    CASE name = "yarn" /\ range = "1.x"     -> "npm:yarn"
      [] name = "yarn" /\ range = ">=2.0.0" -> "npm:@yarnpkg/cli-dist"
      [] name = "pnpm"                      -> "npm:pnpm"

HasDefinition(name) == name \in SupportedPackageManagerSet

\* a descriptor whose range is a URL is not one of a supported package manager
isSupportedPackageManagerDescriptor(descriptor) ==
    descriptor.range \notin UrlStrings

(***************************************************************************)
(* What the collaborators may answer.                                      *)
(***************************************************************************)
\* the duplicate-free sequences over S of length at most n
SeqsUpTo(S, n) ==
    {q \in UNION {[1..k -> S] : k \in 0..n} :
        \A i, j \in DOMAIN q : i # j => q[i] # q[j]}

\* fetchAvailableVersions: a list of published versions
VersionLists == SeqsUpTo(PlainVersions, MaxList)

\* fetchAvailableTags: a map from some tags to versions
TagTargets == {"1.1.0", "2.0.0"}
TagMaps == UNION {[D -> TagTargets] : D \in SUBSET {"latest", "next"}}

\* Object.hasOwn
hasOwn(obj, key) == key \in DOMAIN obj

\* install folders: per package manager, the versions installed
InstallFolders ==
    {f \in [SupportedPackageManagerSet -> SUBSET PlainVersions] :
        Cardinality({<<n, v>> \in SupportedPackageManagerSet \X PlainVersions :
                        v \in f[n]}) <= MaxInstalled}

\* corepackUtils.findInstalledVersion: the highest installed version the
\* descriptor's range accepts, or null
findInstalledVersion(folder, descriptor) ==
    LET hits == {v \in folder[descriptor.name] : RangeTest(descriptor.range, v)}
    IN  IF hits = {} THEN Null
        ELSE CHOOSE v \in hits : \A w \in hits : semverRcompare(v, w) <= 0

(***************************************************************************)
(* The state.                                                              *)
(***************************************************************************)
VARIABLES
    pc,         \* the stack of program positions: the running function's on top
    outcome,    \* what the function that ended last returned or threw
    env,        \* process.env, as the COREPACK_* switches the code reads
    installed,  \* the install folder: per package manager, the versions in it
    rd,         \* resolveDescriptor's frame
    prev,       \* the resolveDescriptor call that ended before the current one
    lkgFile,    \* lastKnownGood.json in the corepack home folder
    lkg,        \* the frame of the functions that read and write that file
    lastActivation, \* the activation that ended before the current call
    project,    \* the project around the working directory, as loadSpec finds it
    epm,        \* ensurePackageManager's frame
    fps,        \* findProjectSpec's frame
    req,        \* executePackageManagerRequest's frame
    race        \* the processes that activate at the same time

vars == <<pc, outcome, env, installed, rd, prev, lkgFile, lkg, lastActivation,
          project, epm, fps, req, race>>
\* what the functions of one part of the engine leave alone
resolver == <<installed, rd, prev>>
store == <<lkgFile, lkg, lastActivation>>
projectSpec == <<project, epm, fps>>
dispatch == <<req, race>>

\* values a function returns or throws
Locator(name, reference) == [t |-> "Locator", name |-> name, reference |-> reference]
NullValue == [t |-> "null"]
Throw(error) == [t |-> "throw", error |-> error]
NoOutcome == [t |-> "none"]

Descriptor(name, range) == [name |-> name, range |-> range]

At(label) == Head(pc) = label
Goto(label) == pc' = <<label>> \o Tail(pc)
\* the running function ends: its caller goes on with the value
Return(value) == pc' = Tail(pc) /\ outcome' = value

\* the switches as a process without any of them set behaves
NoEnv == [COREPACK_ENABLE_UNSAFE_CUSTOM_URLS |-> "0",
          COREPACK_DEFAULT_TO_LATEST |-> "1",
          COREPACK_ENABLE_PROJECT_SPEC |-> "1",
          COREPACK_ENABLE_STRICT |-> "1",
          COREPACK_ENABLE_AUTO_PIN |-> "1"]
Envs == {[NoEnv EXCEPT !.COREPACK_ENABLE_UNSAFE_CUSTOM_URLS = u] : u \in {"0", "1"}}

NoDescriptor == Descriptor("", "")
\* the registries asked for tags and for versions, in the order of the calls
NoNet == [tags |-> <<>>, versions |-> <<>>, latest |-> 0]

\* resolveDescriptor's frame on entry (Engine.ts:327)
RdFrame(descriptor, allowTags, useCache) ==
    [descriptor |-> descriptor, allowTags |-> allowTags, useCache |-> useCache,
     finalDescriptor |-> descriptor,
     tags |-> <<>>,             \* the tag map fetched, if one was
     folder |-> <<>>,           \* the install folder as findInstalledVersion read it
     cachedVersion |-> Null,
     pending |-> {},            \* the range keys whose registry has not answered
     fetched |-> <<>>,          \* per range key, what its registry answered
     order |-> <<>>,            \* the range keys, in the order of the answers
     versions |-> <<>>,         \* per range key, the answer filtered
     net |-> NoNet,             \* the network calls made so far
     via |-> "",                \* the return statement that ended the call
     result |-> NoOutcome]      \* what the call returned or threw

\* executePackageManagerRequest's frame on entry (Engine.ts:282-288)
ReqFrame(packageManager, binaryName, binaryVersion, args) ==
    [packageManager |-> packageManager, binaryName |-> binaryName,
     binaryVersion |-> binaryVersion, args |-> args,
     defaultVersion |-> Undefined,
     isTransparentCommand |-> FALSE,
     fallbackLocator |-> Locator(binaryName, Undefined),
     found |-> NoOutcome,        \* what findProjectSpec returned
     descriptor |-> NoOutcome,   \* the descriptor given to resolveDescriptor
     resolved |-> NoOutcome,     \* what resolveDescriptor returned
     installSpec |-> NoOutcome,  \* what ensurePackageManager returned
     runs |-> <<>>,              \* the arguments of each runVersion call
     result |-> NoOutcome]       \* what the call returned or threw
\* no request and no racing process yet
NoReq == ReqFrame(Null, "", Null, <<>>)
NoRace == [proc |-> <<>>, lastWriter |-> 0]

\* what is kept of an earlier call that resolved a tag: the version the tag
\* mapped to, the install folder as the call read it, and what it returned
NoCall == [descriptor |-> NoDescriptor, useCache |-> FALSE,
           target |-> "", folder |-> <<>>, result |-> NoOutcome]

(***************************************************************************)
(* Engine.resolveDescriptor (Engine.ts:327-388).                           *)
(***************************************************************************)
\* the call ends at the return (or throw) statement named via
RdReturn(frame, via, value) ==
    /\ rd' = [frame EXCEPT !.via = via, !.result = value]
    /\ Return(value)

\* line 343: the range is neither a version nor a range, so it is a tag
IsTagRange(range) == ~semverValid(range) /\ ~semverValidRange(range)

\* a slip: the first range key instead of the last
TagRangeFirst(name) == RangeKeys(name)[1]

\* lines 348-349: tags are resolved from the last range key only
TagRange(name) == RangeKeys(name)[Len(RangeKeys(name))]

\* a slip: the cache is used whatever useCache says
CacheShortcutAlways(cachedVersion, useCache) == cachedVersion # Null

\* a slip: the latest tag is resolved whenever the registry has one
TagDescriptorLatest(descriptor, tags) ==
    Descriptor(descriptor.name,
               IF hasOwn(tags, "latest") THEN tags["latest"] ELSE tags[descriptor.range])

\* lines 358-361: the working descriptor of a tag
TagDescriptor(descriptor, tags) == Descriptor(descriptor.name, tags[descriptor.range])

\* line 367: the cache shortcut
CacheShortcut(cachedVersion, useCache) == cachedVersion # Null /\ useCache

\* a slip: no shortcut, an exact version is looked up in the registries too
ExactShortcutNever(range) == FALSE

\* a slip: semverValidRange where semverValid is meant
ExactShortcutAnyRange(range) == semverValidRange(range)

\* line 372: the exact-version shortcut
ExactShortcut(range) == semverValid(range)

\* lines 328-354: up to the first await, fetchAvailableTags called with the
\* registry of the last range key
RdStart ==
    /\ At("rd_start")
    /\ LET d == rd.descriptor IN
       IF ~isSupportedPackageManagerDescriptor(d) THEN
          IF env.COREPACK_ENABLE_UNSAFE_CUSTOM_URLS # "1" /\ isSupportedPackageManager(d.name)
          THEN RdReturn(rd, "throw", Throw("IllegalCustomURL"))
          ELSE RdReturn(rd, "custom", Locator(d.name, d.range))
       ELSE IF ~HasDefinition(d.name) THEN
          RdReturn(rd, "throw", Throw("UnsupportedPackageManager"))
       ELSE IF IsTagRange(d.range) THEN
          IF ~rd.allowTags
          THEN RdReturn(rd, "throw", Throw("TagsNotAllowed"))
          ELSE /\ rd' = [rd EXCEPT !.net.tags =
                              Append(@, getRegistryFromPackageManagerSpec(d.name, TagRange(d.name)))]
               /\ Goto("rd_tags")
               /\ UNCHANGED outcome
       ELSE /\ Goto("rd_cache")
            /\ UNCHANGED <<rd, outcome>>
    /\ UNCHANGED <<env, installed, prev, store, projectSpec, dispatch>>

\* lines 354-362: fetchAvailableTags answers
RdTags ==
    /\ At("rd_tags")
    /\ \E tags \in TagMaps :
          IF ~hasOwn(tags, rd.descriptor.range)
          THEN RdReturn([rd EXCEPT !.tags = <<tags>>], "throw", Throw("TagNotFound"))
          ELSE /\ rd' = [rd EXCEPT !.tags = <<tags>>,
                                   !.finalDescriptor = TagDescriptor(rd.descriptor, tags)]
               /\ Goto("rd_cache")
               /\ UNCHANGED outcome
    /\ UNCHANGED <<env, installed, prev, store, projectSpec, dispatch>>

\* line 354: fetchAvailableTags fails
RdTagsFail ==
    /\ At("rd_tags")
    /\ RdReturn(rd, "throw", Throw("NetworkError"))
    /\ UNCHANGED <<env, installed, prev, store, projectSpec, dispatch>>

\* lines 366-381: findInstalledVersion answers; the cache and exact-version
\* shortcuts; otherwise one fetchAvailableVersions per range key is started
RdCache ==
    /\ At("rd_cache")
    /\ LET final == rd.finalDescriptor
           cachedVersion == findInstalledVersion(installed, final)
           keys == RangeKeys(final.name)
           seen == [rd EXCEPT !.folder = <<installed[final.name]>>,
                              !.cachedVersion = cachedVersion]
       IN
       IF CacheShortcut(cachedVersion, rd.useCache) THEN
          RdReturn(seen, "cache", Locator(final.name, cachedVersion))
       ELSE IF ExactShortcut(final.range) THEN
          RdReturn(seen, "exact", Locator(final.name, final.range))
       ELSE
          /\ rd' = [seen EXCEPT
                      !.pending = DOMAIN keys,
                      !.fetched = [i \in DOMAIN keys |-> <<>>],
                      !.versions = [i \in DOMAIN keys |-> <<>>],
                      !.net.versions =
                          [i \in DOMAIN keys |->
                              getRegistryFromPackageManagerSpec(final.name, keys[i])]]
          /\ Goto("rd_fanout")
          /\ UNCHANGED outcome
    /\ UNCHANGED <<env, installed, prev, store, projectSpec, dispatch>>

\* Array.prototype.filter
RECURSIVE Filter(_, _)
Filter(list, range) ==
    IF list = <<>> THEN <<>>
    ELSE (IF satisfiesWithPrereleases(Head(list), range) THEN <<Head(list)>> ELSE <<>>)
         \o Filter(Tail(list), range)

\* lines 379-380: the registry of range key i answers, and the answer is filtered
RdFetched(i) ==
    /\ At("rd_fanout")
    /\ i \in rd.pending
    /\ \E list \in VersionLists :
          rd' = [rd EXCEPT !.pending = @ \ {i},
                           !.order = Append(@, i),
                           !.fetched[i] = list,
                           !.versions[i] = Filter(list, rd.finalDescriptor.range)]
    /\ UNCHANGED <<pc, outcome, env, installed, prev, store, projectSpec, dispatch>>

\* line 379: a registry fails, and Promise.all rejects at once
RdFetchFail(i) ==
    /\ At("rd_fanout")
    /\ i \in rd.pending
    /\ RdReturn(rd, "throw", Throw("NetworkError"))
    /\ UNCHANGED <<env, installed, prev, store, projectSpec, dispatch>>

\* Array.prototype.flat
RECURSIVE Flat(_)
Flat(lists) ==
    IF lists = <<>> THEN <<>> ELSE Head(lists) \o Flat(Tail(lists))

\* [...new Set(list)]: the first occurrence of each element, in order
RECURSIVE Dedupe(_)
Dedupe(list) ==
    IF list = <<>> THEN <<>>
    ELSE LET front == Dedupe(SubSeq(list, 1, Len(list) - 1))
             last == list[Len(list)]
         IN  IF \E i \in DOMAIN front : front[i] = last THEN front
             ELSE Append(front, last)

\* one element put in its place in a list sorted by compare
RECURSIVE Insert(_, _)
Insert(sorted, x) ==
    IF sorted = <<>> THEN <<x>>
    ELSE LET last == sorted[Len(sorted)]
         IN  IF semverRcompare(last, x) <= 0 THEN Append(sorted, x)
             ELSE Append(Insert(SubSeq(sorted, 1, Len(sorted) - 1), x), last)

\* Array.prototype.sort(semverRcompare): stable, highest version first
RECURSIVE Sort(_)
Sort(list) ==
    IF list = <<>> THEN <<>>
    ELSE Insert(Sort(SubSeq(list, 1, Len(list) - 1)), list[Len(list)])

\* a slip: the sort is left out
HighestVersionsUnsorted(versions) == Dedupe(Flat(versions))

\* line 383
HighestVersions(versions) == Sort(Dedupe(Flat(versions)))

\* lines 381-387: every registry has answered
RdJoin ==
    /\ At("rd_fanout")
    /\ rd.pending = {}
    /\ LET highestVersion == HighestVersions(rd.versions) IN
       IF Len(highestVersion) = 0
       THEN RdReturn(rd, "null", NullValue)
       ELSE RdReturn(rd, "registry", Locator(rd.finalDescriptor.name, highestVersion[1]))
    /\ UNCHANGED <<env, installed, prev, store, projectSpec, dispatch>>

ResolveDescriptor ==
    \/ RdStart
    \/ RdTags
    \/ RdTagsFail
    \/ RdCache
    \/ \E i \in 1..2 : RdFetched(i)
    \/ \E i \in 1..2 : RdFetchFail(i)
    \/ RdJoin

(***************************************************************************)
(* The Last-Known-Good file (Engine.ts:30-82).  A JSON document and the    *)
(* value JSON.parse makes of it are records: js is the kind of value,      *)
(* entries its properties with a name, items its array elements.           *)
(***************************************************************************)
Str(s) == <<"string", s>>
\* a value that is not a string
NotAString == <<"number", "0">>
\* an array element that was deleted
Hole == <<"hole", "">>
JsonNull == <<"null", "">>
UndefinedValue == <<"undefined", "">>

JsonObject(entries) == [js |-> "object", entries |-> entries, items |-> <<>>]
JsonArray(items, entries) == [js |-> "array", entries |-> entries, items |-> items]
\* null (falsy), a number (truthy, not an object), or text that is not JSON
JsonOther(js) == [js |-> js, entries |-> <<>>, items |-> <<>>]
EmptyObject == JsonObject(<<>>)

\* longest array a Last-Known-Good file holds in an initial state
MaxItems == 1

StoreValues == {Str(""), Str("1.1.0"), Str("2.0.0"), NotAString}
Documents ==
    {JsonOther("invalid"), JsonOther("null"), JsonOther("number")}
    \cup {JsonObject(e) :
            e \in UNION {[D -> StoreValues] : D \in SUBSET SupportedPackageManagerSet}}
    \cup {JsonArray(items, <<>>) :
            items \in UNION {[1..k -> {Str("1.1.0"), NotAString}] : k \in 0..MaxItems}}

MissingFile == [kind |-> "missing", content |-> JsonOther("invalid")]
UnreadableFile == [kind |-> "unreadable", content |-> JsonOther("invalid")]
File(content) == [kind |-> "file", content |-> content]
LkgFiles == {MissingFile, UnreadableFile} \cup {File(d) : d \in Documents}

\* JSON.stringify(value, null, 2): the properties of an object; of an array the
\* elements only, a hole written as null
JSONStringify(value) ==
    IF value.js = "array"
    THEN JsonArray([i \in DOMAIN value.items |->
                       IF value.items[i] = Hole THEN JsonNull ELSE value.items[i]],
                   <<>>)
    ELSE value

\* JSON.parse of a document that is JSON
JSONParse(content) == content

StoreResult(value) == [t |-> "Store", value |-> value]
StringResult(value) == [t |-> "string", value |-> value]
VoidResult == [t |-> "void"]

IsString(value) == value[1] = "string"

\* a slip: the entries that are strings are the ones dropped
OnlyStringsNegated(parsed) ==
    [parsed EXCEPT
        !.entries = [k \in {k \in DOMAIN parsed.entries : ~IsString(parsed.entries[k])} |->
                        parsed.entries[k]],
        !.items = [i \in DOMAIN parsed.items |->
                        IF ~IsString(parsed.items[i]) THEN parsed.items[i] ELSE Hole]]

\* lines 47-52: every entry that is not a string is deleted
OnlyStrings(parsed) ==
    [parsed EXCEPT
        !.entries = [k \in {k \in DOMAIN parsed.entries : IsString(parsed.entries[k])} |->
                        parsed.entries[k]],
        !.items = [i \in DOMAIN parsed.items |->
                        IF IsString(parsed.items[i]) THEN parsed.items[i] ELSE Hole]]

\* lines 34-58: getLastKnownGood, of the file as readFile finds it
getLastKnownGood(file) ==
    IF file.kind = "missing" THEN StoreResult(EmptyObject)
    ELSE IF file.kind = "unreadable" THEN Throw("EACCES")
    ELSE IF file.content.js = "invalid" THEN StoreResult(EmptyObject)
    ELSE LET parsed == JSONParse(file.content) IN
         IF parsed.js = "null" THEN StoreResult(EmptyObject)
         ELSE IF parsed.js \notin {"object", "array"} THEN StoreResult(EmptyObject)
         ELSE StoreResult(OnlyStrings(parsed))

\* line 168: a non-empty string is truthy
Truthy(value) == IsString(value) /\ value[2] # ""

\* lines 66-70
getLastKnownGoodFromFileContent(lastKnownGood, packageManager) ==
    IF hasOwn(lastKnownGood.entries, packageManager)
    THEN lastKnownGood.entries[packageManager]
    ELSE UndefinedValue

\* lastKnownGood[name] (line 73)
GetEntry(lastKnownGood, name) ==
    IF name \in DOMAIN lastKnownGood.entries THEN lastKnownGood.entries[name]
    ELSE UndefinedValue

\* lastKnownGood[name] = value (line 78)
SetEntry(lastKnownGood, name, value) ==
    [lastKnownGood EXCEPT
        !.entries = [k \in DOMAIN lastKnownGood.entries \cup {name} |->
                        IF k = name THEN value ELSE lastKnownGood.entries[k]]]

\* config.json: definition.default
DefaultVersion(name) ==
    CASE name = "yarn" -> "1.1.0+sha1.aa"
      [] name = "pnpm" -> "2.0.0+sha1.bb"

\* fetchLatestStableVersion: what it may answer
LatestVersions == {"2.0.0", "2.0.0+sha1.bb"}

\* the frame of a call of getLastKnownGood, Engine.activatePackageManager or
\* Engine.getDefaultVersion
LkgFrame(fn, name, reference) ==
    [fn |-> fn, name |-> name, reference |-> reference,
     read |-> <<>>,             \* the file as getLastKnownGood read it
     loaded |-> NoOutcome,      \* what getLastKnownGood returned or threw
     lastKnownGood |-> <<>>,    \* the object loaded, as changed since
     content |-> <<>>,          \* the document createLastKnownGoodFile writes
     writes |-> 0,              \* the writeFile calls that succeeded
     latest |-> <<>>,           \* what each fetchLatestStableVersion call answered
     disturbed |-> FALSE,       \* another process wrote the file during the call
     result |-> NoOutcome]      \* what the call returned or threw
NoLkgFrame == LkgFrame("", "", "")

NoActivation == [name |-> "", reference |-> "", held |-> FALSE, writes |-> 0,
                 result |-> NoOutcome]

\* the call on top of the frame ends
LkgReturn(frame, value) ==
    /\ lkg' = [frame EXCEPT !.result = value]
    /\ Return(value)

\* line 37: readFile answers, and lines 38-57
GlkgRead ==
    /\ At("glkg_read")
    /\ LET value == getLastKnownGood(lkgFile)
           frame == [lkg EXCEPT !.read = <<lkgFile>>, !.loaded = value]
       IN  IF lkg.fn = "getLastKnownGood"
           THEN LkgReturn(frame, value)
           ELSE lkg' = frame /\ Return(value)
    /\ UNCHANGED <<env, lkgFile, lastActivation, resolver, projectSpec, dispatch>>

\* lines 190-191: Engine.activatePackageManager goes on with the object loaded
EapLoaded ==
    /\ At("eap_loaded")
    /\ IF outcome.t = "throw"
       THEN LkgReturn(lkg, outcome)
       ELSE /\ lkg' = [lkg EXCEPT !.lastKnownGood = <<outcome.value>>]
            /\ pc' = <<"act_start", "eap_done">> \o Tail(pc)
            /\ UNCHANGED outcome
    /\ UNCHANGED <<env, lkgFile, lastActivation, resolver, projectSpec, dispatch>>

\* lines 73-81 and 61-62: activatePackageManager up to the mkdir
ActStart ==
    /\ At("act_start")
    /\ LET lastKnownGood == lkg.lastKnownGood[1] IN
       IF GetEntry(lastKnownGood, lkg.name) = Str(lkg.reference)
       THEN /\ Return(VoidResult)
            /\ UNCHANGED lkg
       ELSE LET changed == SetEntry(lastKnownGood, lkg.name, Str(lkg.reference)) IN
            /\ lkg' = [lkg EXCEPT !.lastKnownGood = <<changed>>,
                                  !.content = <<JSONStringify(changed)>>]
            /\ Goto("lkg_mkdir")
            /\ UNCHANGED outcome
    /\ UNCHANGED <<env, lkgFile, lastActivation, resolver, projectSpec, dispatch>>

\* line 62: mkdir ends
LkgMkdir ==
    /\ At("lkg_mkdir")
    /\ Goto("lkg_write")
    /\ UNCHANGED <<outcome, env, lkgFile, lkg, lastActivation, resolver, projectSpec, dispatch>>

\* line 62: mkdir fails
LkgMkdirFail ==
    /\ At("lkg_mkdir")
    /\ Return(Throw("EACCES"))
    /\ UNCHANGED <<env, lkgFile, lkg, lastActivation, resolver, projectSpec, dispatch>>

\* line 63: writeFile replaces the file
LkgWrite ==
    /\ At("lkg_write")
    /\ lkgFile' = File(lkg.content[1])
    /\ lkg' = [lkg EXCEPT !.writes = @ + 1]
    /\ Return(VoidResult)
    /\ UNCHANGED <<env, lastActivation, resolver, projectSpec, dispatch>>

\* line 63: writeFile fails
LkgWriteFail ==
    /\ At("lkg_write")
    /\ Return(Throw("EACCES"))
    /\ UNCHANGED <<env, lkgFile, lkg, lastActivation, resolver, projectSpec, dispatch>>

\* line 191: Engine.activatePackageManager ends as activatePackageManager did
EapDone ==
    /\ At("eap_done")
    /\ LkgReturn(lkg, outcome)
    /\ UNCHANGED <<env, lkgFile, lastActivation, resolver, projectSpec, dispatch>>

\* lines 162-166: Engine.getDefaultVersion up to the read of the file
GdvStart ==
    /\ At("gdv_start")
    /\ IF ~HasDefinition(lkg.name)
       THEN LkgReturn(lkg, Throw("UnsupportedPackageManager"))
       ELSE /\ pc' = <<"glkg_read", "gdv_loaded">> \o Tail(pc)
            /\ UNCHANGED <<outcome, lkg>>
    /\ UNCHANGED <<env, lkgFile, lastActivation, resolver, projectSpec, dispatch>>

\* lines 166-174
GdvLoaded ==
    /\ At("gdv_loaded")
    /\ IF outcome.t = "throw" THEN LkgReturn(lkg, outcome)
       ELSE LET lastKnownGood == outcome.value
                lastKnownGoodForThisPackageManager ==
                    getLastKnownGoodFromFileContent(lastKnownGood, lkg.name)
                frame == [lkg EXCEPT !.lastKnownGood = <<lastKnownGood>>]
            IN  IF Truthy(lastKnownGoodForThisPackageManager)
                THEN LkgReturn(frame, StringResult(lastKnownGoodForThisPackageManager[2]))
                ELSE IF env.COREPACK_DEFAULT_TO_LATEST = "0"
                THEN LkgReturn(frame, StringResult(DefaultVersion(lkg.name)))
                ELSE /\ lkg' = frame
                     /\ Goto("gdv_fetch")
                     /\ UNCHANGED outcome
    /\ UNCHANGED <<env, lkgFile, lastActivation, resolver, projectSpec, dispatch>>

\* lines 174-177: fetchLatestStableVersion answers
GdvFetched ==
    /\ At("gdv_fetch")
    /\ \E reference \in LatestVersions :
          lkg' = [lkg EXCEPT !.reference = reference, !.latest = Append(@, reference)]
    /\ pc' = <<"act_start", "gdv_activated">> \o Tail(pc)
    /\ UNCHANGED <<outcome, env, lkgFile, lastActivation, resolver, projectSpec, dispatch>>

\* line 174: fetchLatestStableVersion fails
GdvFetchFail ==
    /\ At("gdv_fetch")
    /\ LkgReturn([lkg EXCEPT !.latest = Append(@, Null)], Throw("NetworkError"))
    /\ UNCHANGED <<env, lkgFile, lastActivation, resolver, projectSpec, dispatch>>

\* a slip: no try around the activation, its failure is the call's
AfterActivationRethrown(activated, reference) ==
    IF activated.t = "throw" THEN activated ELSE StringResult(reference)

\* lines 176-186: the reference, whether activatePackageManager returned or threw
AfterActivation(activated, reference) == StringResult(reference)

\* lines 176-186: activatePackageManager has ended
GdvActivated ==
    /\ At("gdv_activated")
    /\ LkgReturn(lkg, AfterActivation(outcome, lkg.reference))
    /\ UNCHANGED <<env, lkgFile, lastActivation, resolver, projectSpec, dispatch>>

LastKnownGood ==
    \/ GlkgRead
    \/ EapLoaded
    \/ ActStart
    \/ LkgMkdir
    \/ LkgMkdirFail
    \/ LkgWrite
    \/ LkgWriteFail
    \/ EapDone
    \/ GdvStart
    \/ GdvLoaded
    \/ GdvFetched
    \/ GdvFetchFail
    \/ GdvActivated

\* another corepack process activates a version: lines 190-191 and 72-82 as a whole
OtherProcessActivates ==
    /\ lkgFile.kind # "unreadable"
    /\ \E name \in SupportedPackageManagerSet, reference \in {"1.1.0", "2.0.0"} :
          LET lastKnownGood == getLastKnownGood(lkgFile).value IN
          /\ GetEntry(lastKnownGood, name) # Str(reference)
          /\ lkgFile' = File(JSONStringify(SetEntry(lastKnownGood, name, Str(reference))))
    /\ lkg' = IF At("idle") THEN lkg ELSE [lkg EXCEPT !.disturbed = TRUE]
    /\ lastActivation' = NoActivation
    /\ UNCHANGED <<pc, outcome, env, resolver, projectSpec, dispatch>>

\* a process starts and calls one of the three functions
CallGetLastKnownGood ==
    /\ At("idle")
    /\ lkg' = LkgFrame("getLastKnownGood", "", "")
    /\ pc' = <<"glkg_read", "done">>
    /\ UNCHANGED <<outcome, env, lkgFile, lastActivation, resolver, projectSpec, dispatch>>

CallActivatePackageManager ==
    /\ At("idle")
    /\ \E name \in SupportedPackageManagerSet, reference \in {"1.1.0", "2.0.0"} :
          lkg' = LkgFrame("activatePackageManager", name, reference)
    /\ pc' = <<"glkg_read", "eap_loaded", "done">>
    /\ UNCHANGED <<outcome, env, lkgFile, lastActivation, resolver, projectSpec, dispatch>>

StoreEnvs == {[NoEnv EXCEPT !.COREPACK_DEFAULT_TO_LATEST = u] : u \in {"0", "1"}}

CallGetDefaultVersion ==
    /\ At("idle")
    /\ \E name \in Names : lkg' = LkgFrame("getDefaultVersion", name, "")
    /\ env' \in StoreEnvs
    /\ pc' = <<"gdv_start", "done">>
    /\ UNCHANGED <<outcome, lkgFile, lastActivation, resolver, projectSpec, dispatch>>

\* the store held the reference for the package manager when the call read it
HeldAtRead(frame) ==
    /\ frame.loaded.t = "Store"
    /\ getLastKnownGoodFromFileContent(frame.loaded.value, frame.name) = Str(frame.reference)

\* the process ends; of an activation is kept what later calls are compared to,
\* until something else writes the file or activates a version
FinishStore ==
    /\ At("done")
    /\ pc' = <<"idle">>
    /\ outcome' = NoOutcome
    /\ env' = NoEnv
    /\ lkg' = NoLkgFrame
    /\ lastActivation' =
          IF lkg.disturbed THEN NoActivation
          ELSE IF lkg.fn = "activatePackageManager"
          THEN [name |-> lkg.name, reference |-> lkg.reference,
                held |-> HeldAtRead(lkg), writes |-> lkg.writes,
                result |-> lkg.result]
          ELSE IF lkg.writes = 0 /\ lkg.latest = <<>> THEN lastActivation
          ELSE NoActivation
    /\ UNCHANGED <<lkgFile, resolver, projectSpec, dispatch>>

(***************************************************************************)
(* Engine.getPackageManagerSpecFor and Engine.ensurePackageManager         *)
(* (Engine.ts:107-134, 194-214).                                           *)
(***************************************************************************)
\* corepackUtils.isSupportedPackageManagerLocator: the reference is not a URL
isSupportedPackageManagerLocator(locator) == locator.reference \notin UrlStrings

\* a slip: the range keys are scanned in the order of their declaration
ReverseForgotten(list) == list

\* Array.prototype.reverse (line 128)
Reverse(list) == [i \in DOMAIN list |-> list[Len(list) + 1 - i]]

RangeSpec(name, range) == [t |-> "spec", name |-> name, range |-> range, url |-> ""]
UrlSpec(url) == [t |-> "spec", name |-> "", range |-> "", url |-> url]

\* lines 107-134
getPackageManagerSpecFor(locator) ==
    IF ~isSupportedPackageManagerLocator(locator) THEN UrlSpec(locator.reference)
    ELSE IF ~HasDefinition(locator.name) THEN Throw("UnsupportedPackageManager")
    ELSE LET ranges == Reverse(RangeKeys(locator.name))
             found == {i \in DOMAIN ranges :
                          satisfiesWithPrereleases(locator.reference, ranges[i])}
         IN  IF found = {} THEN Throw("AssertionFailed")
             ELSE RangeSpec(locator.name,
                            ranges[CHOOSE i \in found : \A j \in found : i <= j])

\* the hashes installVersion may report
Hashes == {"sha1.aa", "sha1.bb"}

\* locator.reference.replace(/\+.*/, ``) (line 201)
NoHashReference(reference) ==
    CASE reference = "1.1.0+sha1.aa" -> "1.1.0"
      [] reference = "2.0.0+sha1.bb" -> "2.0.0"
      [] OTHER -> reference

\* lines 202-207
FixedHashLocator(locator, hash) ==
    Locator(locator.name, NoHashReference(locator.reference) \o "+" \o hash)

NoLocator == Locator("", "")
\* spec: what getPackageManagerSpecFor returned or threw
EpmFrame(locator) == [locator |-> locator, spec |-> NoOutcome]
InstallSpec(locator, spec, hash) ==
    [t |-> "InstallSpec", locator |-> locator, spec |-> spec, hash |-> hash]

\* lines 195-199: up to the call of installVersion
EpmStart ==
    /\ At("epm_start")
    /\ LET spec == getPackageManagerSpecFor(epm.locator) IN
       /\ epm' = [epm EXCEPT !.spec = spec]
       /\ IF spec.t = "throw"
          THEN Return(spec)
          ELSE /\ Goto("epm_install")
               /\ UNCHANGED outcome
    /\ UNCHANGED <<env, resolver, store, project, fps, dispatch>>

\* corepackUtils.installVersion has put the version in the install folder
\* (one fetched from a URL is kept out of the folders of the releases), and
\* lines 201-213
EpmInstalled ==
    /\ At("epm_install")
    /\ installed' =
          IF epm.spec.url = ""
          THEN [installed EXCEPT ![epm.locator.name] =
                                     @ \cup {NoHashReference(epm.locator.reference)}]
          ELSE installed
    /\ \E hash \in Hashes :
          Return(InstallSpec(FixedHashLocator(epm.locator, hash), epm.spec, hash))
    /\ UNCHANGED <<env, rd, prev, store, projectSpec, dispatch>>

\* corepackUtils.installVersion fails
EpmInstallFail ==
    /\ At("epm_install")
    /\ Return(Throw("InstallFailed"))
    /\ UNCHANGED <<env, resolver, store, projectSpec, dispatch>>

EnsurePackageManager ==
    \/ EpmStart
    \/ EpmInstalled
    \/ EpmInstallFail

(***************************************************************************)
(* Engine.findProjectSpec (Engine.ts:232-280).                             *)
(***************************************************************************)
\* specUtils.loadSpec: what it finds around the working directory
NoProject == [type |-> "NoProject", target |-> "", spec |-> NoDescriptor]
NoSpec(target) == [type |-> "NoSpec", target |-> target, spec |-> NoDescriptor]
Found(target, spec) == [type |-> "Found", target |-> target, spec |-> spec]

ProjectFile == "/project/package.json"
\* path.dirname
Dirname(target) == IF target = ProjectFile THEN "/project" ELSE target

ProjectSpecs == {Descriptor(name, range) : name \in SupportedPackageManagerSet,
                                           range \in {"1.1.0", "2.0.0+sha1.bb"}}
Projects == {NoProject, NoSpec(ProjectFile)} \cup {Found(ProjectFile, spec) : spec \in ProjectSpecs}

DescriptorResult(descriptor) ==
    [t |-> "Descriptor", name |-> descriptor.name, range |-> descriptor.range]

FpsFrame(locator, transparent) ==
    [locator |-> locator,
     transparent |-> transparent,   \* the argument, and line 240
     given |-> transparent,         \* the argument as the caller gave it
     loaded |-> <<>>,               \* what loadSpec returned
     installSpec |-> NoOutcome,     \* what ensurePackageManager returned
     pinned |-> <<>>,               \* the arguments of setLocalPackageManager
     via |-> "",                    \* the return statement that ended the call
     result |-> NoOutcome]          \* what the call returned or threw
NoFps == FpsFrame(NoLocator, FALSE)

\* line 234: the template string makes "undefined" of a reference not set
FallbackDescriptor(locator) ==
    Descriptor(locator.name,
               IF locator.reference = Undefined THEN "undefined" ELSE locator.reference)

FpsReturn(frame, via, value) ==
    /\ fps' = [frame EXCEPT !.via = via, !.result = value]
    /\ Return(value)

\* a slip: strict mode switched off is read as the project file switched off
TransparentNever(transparent, strict) == transparent

\* lines 239-240
Transparent(transparent, strict) == IF strict = "0" THEN TRUE ELSE transparent

\* lines 234-243: up to the call of loadSpec
FpsStart ==
    /\ At("fps_start")
    /\ IF env.COREPACK_ENABLE_PROJECT_SPEC = "0"
       THEN FpsReturn(fps, "disabled", DescriptorResult(FallbackDescriptor(fps.locator)))
       ELSE /\ fps' = [fps EXCEPT
                         !.transparent = Transparent(@, env.COREPACK_ENABLE_STRICT)]
            /\ Goto("fps_load")
            /\ UNCHANGED outcome
    /\ UNCHANGED <<env, resolver, store, project, epm, dispatch>>

\* line 272: the error names the project's package manager and its file
ProjectPackageManagerMismatch(name, target) ==
    [t |-> "throw", error |-> "ProjectPackageManagerMismatch",
     name |-> name, target |-> target]

\* line 268
NameMismatch(spec, locator) == spec.name # locator.name

\* lines 243-277: loadSpec answers
FpsLoaded ==
    /\ At("fps_load")
    /\ LET result == project
           frame == [fps EXCEPT !.loaded = <<result>>]
           fallbackDescriptor == FallbackDescriptor(fps.locator)
       IN  CASE result.type = "NoProject" ->
                  /\ FpsReturn(frame, "NoProject", DescriptorResult(fallbackDescriptor))
                  /\ UNCHANGED rd
             [] result.type = "NoSpec" ->
                  IF env.COREPACK_ENABLE_AUTO_PIN # "0"
                  THEN /\ fps' = frame
                       /\ rd' = RdFrame(fallbackDescriptor, TRUE, TRUE)
                       /\ pc' = <<"rd_start", "fps_resolved">> \o Tail(pc)
                       /\ UNCHANGED outcome
                  ELSE /\ FpsReturn(frame, "NoSpec", DescriptorResult(fallbackDescriptor))
                       /\ UNCHANGED rd
             [] result.type = "Found" ->
                  /\ IF NameMismatch(result.spec, fps.locator)
                     THEN IF fps.transparent
                          THEN FpsReturn(frame, "transparent",
                                         DescriptorResult(fallbackDescriptor))
                          ELSE FpsReturn(frame, "throw",
                                         ProjectPackageManagerMismatch(result.spec.name,
                                                                       result.target))
                     ELSE FpsReturn(frame, "Found", DescriptorResult(result.spec))
                  /\ UNCHANGED rd
    /\ UNCHANGED <<env, installed, prev, store, project, epm, dispatch>>

\* lines 251-255: resolveDescriptor has ended
FpsResolved ==
    /\ At("fps_resolved")
    /\ IF outcome.t = "throw"
       THEN /\ FpsReturn(fps, "throw", outcome)
            /\ UNCHANGED epm
       ELSE IF outcome = NullValue
       THEN /\ FpsReturn(fps, "throw", Throw("FailedToResolve"))
            /\ UNCHANGED epm
       ELSE /\ epm' = EpmFrame(outcome)
            /\ pc' = <<"epm_start", "fps_ensured">> \o Tail(pc)
            /\ UNCHANGED <<outcome, fps>>
    /\ UNCHANGED <<env, resolver, store, project, dispatch>>

\* lines 255-261: ensurePackageManager has ended
FpsEnsured ==
    /\ At("fps_ensured")
    /\ IF outcome.t = "throw"
       THEN FpsReturn(fps, "throw", outcome)
       ELSE /\ fps' = [fps EXCEPT !.installSpec = outcome,
                                  !.pinned = <<Dirname(fps.loaded[1].target),
                                               outcome.locator>>]
            /\ Goto("fps_pin")
            /\ UNCHANGED outcome
    /\ UNCHANGED <<env, resolver, store, project, epm, dispatch>>

\* lines 261-264: specUtils.setLocalPackageManager has written the
\* packageManager field of the project's package.json
FpsPinned ==
    /\ At("fps_pin")
    /\ LET locator == fps.installSpec.locator
           target == fps.loaded[1].target
       IN  /\ project' = Found(target, Descriptor(locator.name, locator.reference))
           /\ FpsReturn(fps, "NoSpec", DescriptorResult(FallbackDescriptor(fps.locator)))
    /\ UNCHANGED <<env, resolver, store, epm, dispatch>>

\* line 261: specUtils.setLocalPackageManager fails
FpsPinFail ==
    /\ At("fps_pin")
    /\ FpsReturn(fps, "throw", Throw("EACCES"))
    /\ UNCHANGED <<env, resolver, store, project, epm, dispatch>>

FindProjectSpec ==
    \/ FpsStart
    \/ FpsLoaded
    \/ FpsResolved
    \/ FpsEnsured
    \/ FpsPinned
    \/ FpsPinFail

\* the environments that differ in what findProjectSpec reads
ProjectEnvs ==
    {[NoEnv EXCEPT !.COREPACK_ENABLE_PROJECT_SPEC = p,
                   !.COREPACK_ENABLE_STRICT = s,
                   !.COREPACK_ENABLE_AUTO_PIN = a] : p, s, a \in {"0", "1"}}

\* the references of the fallback locators: a range, versions, a tag, a URL
FallbackReferences == {"1.x", "0.9.0", "2.0.0+sha1.bb", "latest"} \cup UrlStrings

\* a process starts and calls findProjectSpec
CallFindProjectSpec ==
    /\ At("idle")
    /\ \E name \in Names, reference \in FallbackReferences, transparent \in BOOLEAN :
          fps' = FpsFrame(Locator(name, reference), transparent)
    /\ env' \in ProjectEnvs
    /\ pc' = <<"fps_start", "done">>
    /\ outcome' = NoOutcome
    /\ UNCHANGED <<resolver, store, project, epm, dispatch>>

\* the process ends
FinishProject ==
    /\ At("done")
    /\ pc' = <<"idle">>
    /\ outcome' = NoOutcome
    /\ env' = NoEnv
    /\ rd' = RdFrame(NoDescriptor, FALSE, FALSE)
    /\ epm' = EpmFrame(NoLocator)
    /\ fps' = NoFps
    /\ UNCHANGED <<installed, prev, store, project, dispatch>>

InitProject ==
    /\ pc = <<"idle">>
    /\ outcome = NoOutcome
    /\ env = NoEnv
    /\ installed = [n \in SupportedPackageManagerSet |-> {}]
    /\ rd = RdFrame(NoDescriptor, FALSE, FALSE)
    /\ prev = NoCall
    /\ lkgFile = MissingFile
    /\ lkg = NoLkgFrame
    /\ lastActivation = NoActivation
    /\ project \in Projects
    /\ epm = EpmFrame(NoLocator)
    /\ fps = NoFps
    /\ req = NoReq
    /\ race = NoRace

NextProject ==
    \/ CallFindProjectSpec
    \/ FindProjectSpec
    \/ ResolveDescriptor
    \/ EnsurePackageManager
    \/ FinishProject

SpecProject == InitProject /\ [][NextProject]_vars

(***************************************************************************)
(* Engine.executePackageManagerRequest (Engine.ts:282-325).                *)
(***************************************************************************)
\* config.json: definition.transparent.commands
TransparentCommands(name) ==
    CASE name = "yarn" -> << <<"yarn", "dlx">> >>
      [] name = "pnpm" -> << <<"pnpm", "init">>, <<"pnpx">>, <<"pnpm", "dlx">> >>

\* config.json: definition.transparent.default, not set for pnpm
TransparentDefault(name) ==
    CASE name = "yarn" -> "2.0.0+sha1.bb"
      [] name = "pnpm" -> Undefined

\* a slip: the arguments are not looked at
PathMatchesBinaryOnly(transparentPath, binaryName, args) ==
    Len(transparentPath) > 0 /\ transparentPath[1] = binaryName

\* line 297: a segment compared to an argument that is not there is not equal
PathMatches(transparentPath, binaryName, args) ==
    /\ Len(transparentPath) > 0
    /\ transparentPath[1] = binaryName
    /\ \A index \in 1..(Len(transparentPath) - 1) :
          index <= Len(args) /\ transparentPath[index + 1] = args[index]

\* lines 296-301
IsTransparentCommand(name, binaryName, args) ==
    \E i \in DOMAIN TransparentCommands(name) :
        PathMatches(TransparentCommands(name)[i], binaryName, args)

\* lines 303-305
FallbackReference(name, isTransparentCommand, defaultVersion) ==
    IF isTransparentCommand
    THEN IF TransparentDefault(name) # Undefined THEN TransparentDefault(name)
         ELSE defaultVersion
    ELSE defaultVersion

\* a string that is not empty, as binaryVersion || ... and if (binaryVersion) read it
Supplied(binaryVersion) == binaryVersion # Null /\ binaryVersion # ""

ReqReturn(frame, value) ==
    /\ req' = [frame EXCEPT !.result = value]
    /\ Return(value)

\* lines 291-313: from the default version to the call of findProjectSpec
ReqFallback(frame, defaultVersion) ==
    LET isTransparentCommand ==
            IsTransparentCommand(frame.packageManager, frame.binaryName, frame.args)
        fallbackLocator ==
            Locator(frame.packageManager,
                    FallbackReference(frame.packageManager, isTransparentCommand,
                                      defaultVersion))
    IN  /\ req' = [frame EXCEPT !.defaultVersion = defaultVersion,
                                !.isTransparentCommand = isTransparentCommand,
                                !.fallbackLocator = fallbackLocator]
        /\ fps' = FpsFrame(fallbackLocator, isTransparentCommand)

\* lines 283-291, and on to line 313 when getDefaultVersion is not called
ReqStart ==
    /\ At("req_start")
    /\ IF req.packageManager = Null
       THEN /\ fps' = FpsFrame(req.fallbackLocator, FALSE)
            /\ pc' = <<"fps_start", "req_spec">> \o Tail(pc)
            /\ UNCHANGED <<req, lkg>>
       ELSE IF Supplied(req.binaryVersion)
       THEN /\ ReqFallback(req, req.binaryVersion)
            /\ pc' = <<"fps_start", "req_spec">> \o Tail(pc)
            /\ UNCHANGED lkg
       ELSE /\ lkg' = LkgFrame("getDefaultVersion", req.packageManager, "")
            /\ pc' = <<"gdv_start", "req_default">> \o Tail(pc)
            /\ UNCHANGED <<req, fps>>
    /\ UNCHANGED <<outcome, env, resolver, lkgFile, lastActivation, project, epm, race>>

\* lines 291-313: getDefaultVersion has ended
ReqDefault ==
    /\ At("req_default")
    /\ IF outcome.t = "throw"
       THEN /\ ReqReturn(req, outcome)
            /\ UNCHANGED fps
       ELSE /\ ReqFallback(req, outcome.value)
            /\ pc' = <<"fps_start", "req_spec">> \o Tail(pc)
            /\ UNCHANGED outcome
    /\ UNCHANGED <<env, resolver, store, project, epm, race>>

\* a slip: the version asked for is used only when the project has none
FinalRangeProjectFirst(found, binaryVersion, fallbackLocator) ==
    IF Supplied(binaryVersion) /\ found.range = fallbackLocator.reference
    THEN binaryVersion ELSE found.range

\* lines 315-316
FinalRange(found, binaryVersion, fallbackLocator) ==
    IF Supplied(binaryVersion) THEN binaryVersion ELSE found.range

\* lines 313-318: findProjectSpec has ended
ReqSpec ==
    /\ At("req_spec")
    /\ IF outcome.t = "throw"
       THEN /\ ReqReturn(req, outcome)
            /\ UNCHANGED rd
       ELSE LET descriptor ==
                    Descriptor(outcome.name,
                               FinalRange(outcome, req.binaryVersion, req.fallbackLocator))
            IN  /\ req' = [req EXCEPT !.found = outcome, !.descriptor = descriptor]
                /\ rd' = RdFrame(descriptor, TRUE, TRUE)
                /\ pc' = <<"rd_start", "req_resolved">> \o Tail(pc)
                /\ UNCHANGED outcome
    /\ UNCHANGED <<env, installed, prev, store, projectSpec, race>>

\* lines 318-322: resolveDescriptor has ended, and its frame is gone
ReqResolved ==
    /\ At("req_resolved")
    /\ IF outcome.t = "throw"
       THEN /\ ReqReturn([req EXCEPT !.resolved = outcome], outcome)
            /\ UNCHANGED epm
       ELSE IF outcome = NullValue
       THEN /\ ReqReturn([req EXCEPT !.resolved = outcome], Throw("ResolutionFailed"))
            /\ UNCHANGED epm
       ELSE /\ req' = [req EXCEPT !.resolved = outcome]
            /\ epm' = EpmFrame(outcome)
            /\ pc' = <<"epm_start", "req_ensured">> \o Tail(pc)
            /\ UNCHANGED outcome
    /\ rd' = RdFrame(NoDescriptor, FALSE, FALSE)
    /\ UNCHANGED <<env, installed, prev, store, project, fps, race>>

\* a slip: the binary is run although the install failed
RunAfterEnsureAlways(ensured) == TRUE

\* lines 322-324: runVersion is called when ensurePackageManager returned
RunAfterEnsure(ensured) == ensured.t # "throw"

\* lines 322-324: ensurePackageManager has ended
ReqEnsured ==
    /\ At("req_ensured")
    /\ IF RunAfterEnsure(outcome)
       THEN /\ req' = [req EXCEPT !.installSpec = outcome,
                                  !.runs = Append(@, <<req.resolved, outcome>>)]
            /\ Goto("req_run")
            /\ UNCHANGED outcome
       ELSE ReqReturn(req, outcome)
    /\ UNCHANGED <<env, resolver, store, projectSpec, race>>

\* line 324: corepackUtils.runVersion ends
ReqRan ==
    /\ At("req_run")
    /\ ReqReturn(req, VoidResult)
    /\ UNCHANGED <<env, resolver, store, projectSpec, race>>

\* line 324: corepackUtils.runVersion fails
ReqRunFail ==
    /\ At("req_run")
    /\ ReqReturn(req, Throw("RunFailed"))
    /\ UNCHANGED <<env, resolver, store, projectSpec, race>>

ExecutePackageManagerRequest ==
    \/ ReqStart
    \/ ReqDefault
    \/ ReqSpec
    \/ ReqResolved
    \/ ReqEnsured
    \/ ReqRan
    \/ ReqRunFail

\* what a request names
BinaryNames == {"yarn", "pnpx"}
BinaryVersions == {Null, "0.9.0", "1.x", "latest"}
ArgLists == {<<>>, <<"dlx", "foo">>}
RequestEnvs == {NoEnv}

\* a process starts and calls executePackageManagerRequest
CallExecutePackageManagerRequest ==
    /\ At("idle")
    /\ \E packageManager \in SupportedPackageManagerSet \cup {Null},
          binaryName \in BinaryNames, binaryVersion \in BinaryVersions,
          args \in ArgLists :
          req' = ReqFrame(packageManager, binaryName, binaryVersion, args)
    /\ env' \in RequestEnvs
    /\ pc' = <<"req_start", "done">>
    /\ outcome' = NoOutcome
    /\ UNCHANGED <<resolver, store, projectSpec, race>>

\* what the request finds on disk
RequestFiles ==
    {MissingFile,
     File(JsonObject([n \in {"yarn"} |-> Str("1.1.0")])),
     File(JsonObject([n \in {"pnpm"} |-> Str("2.0.0")]))}
\* the install folder a process finds: it holds versions of yarn only
RequestFolders == {f \in InstallFolders : f["pnpm"] = {}}
RequestProjects ==
    {NoProject, NoSpec(ProjectFile), Found(ProjectFile, Descriptor("pnpm", "1.1.0")),
     Found(ProjectFile, Descriptor("yarn", "2.0.0+sha1.bb"))}

InitRequest ==
    /\ pc = <<"idle">>
    /\ outcome = NoOutcome
    /\ env = NoEnv
    /\ installed \in RequestFolders
    /\ rd = RdFrame(NoDescriptor, FALSE, FALSE)
    /\ prev = NoCall
    /\ lkgFile \in RequestFiles
    /\ lkg = NoLkgFrame
    /\ lastActivation = NoActivation
    /\ project \in RequestProjects
    /\ epm = EpmFrame(NoLocator)
    /\ fps = NoFps
    /\ req = NoReq
    /\ race = NoRace

\* Engine.getDefaultVersion and what it calls
GetDefaultVersion ==
    \/ GdvStart
    \/ GlkgRead
    \/ GdvLoaded
    \/ GdvFetched
    \/ GdvFetchFail
    \/ ActStart
    \/ LkgMkdir
    \/ LkgMkdirFail
    \/ LkgWrite
    \/ LkgWriteFail
    \/ GdvActivated

NextRequest ==
    \/ CallExecutePackageManagerRequest
    \/ ExecutePackageManagerRequest
    \/ GetDefaultVersion
    \/ FindProjectSpec
    \/ ResolveDescriptor
    \/ EnsurePackageManager

SpecRequest == InitRequest /\ [][NextRequest]_vars

(***************************************************************************)
(* Engine.activatePackageManager (Engine.ts:189-192, 72-82, 60-64) run by  *)
(* several processes at once: each has its own frame, the file is shared.  *)
(***************************************************************************)
Procs == 1..MaxProcs

RaceFrame(at, locator) ==
    [at |-> at, locator |-> locator,
     snapshot |-> <<>>,         \* the object getLastKnownGood returned
     lastKnownGood |-> <<>>,    \* that object, as changed since
     content |-> <<>>,          \* the document createLastKnownGoodFile writes
     result |-> NoOutcome]

RaceAt(p, at) == p \in DOMAIN race.proc /\ race.proc[p].at = at

RaceStep(p, frame) == race' = [race EXCEPT !.proc[p] = frame]

\* line 190: the process has read the file
RaceRead(p) ==
    /\ RaceAt(p, "read")
    /\ LET value == getLastKnownGood(lkgFile) IN
       IF value.t = "throw"
       THEN RaceStep(p, [race.proc[p] EXCEPT !.at = "done", !.result = value])
       ELSE RaceStep(p, [race.proc[p] EXCEPT !.at = "set", !.snapshot = <<value.value>>,
                                             !.lastKnownGood = <<value.value>>])
    /\ UNCHANGED <<pc, outcome, env, resolver, store, projectSpec, req>>

\* lines 73-81 and 61: the entry is set and the document made
RaceSet(p) ==
    /\ RaceAt(p, "set")
    /\ LET frame == race.proc[p]
           lastKnownGood == frame.lastKnownGood[1]
           locator == frame.locator
       IN  IF GetEntry(lastKnownGood, locator.name) = Str(locator.reference)
           THEN RaceStep(p, [frame EXCEPT !.at = "done", !.result = VoidResult])
           ELSE LET changed == SetEntry(lastKnownGood, locator.name, Str(locator.reference))
                IN  RaceStep(p, [frame EXCEPT !.at = "mkdir",
                                              !.lastKnownGood = <<changed>>,
                                              !.content = <<JSONStringify(changed)>>])
    /\ UNCHANGED <<pc, outcome, env, resolver, store, projectSpec, req>>

\* line 62
RaceMkdir(p) ==
    /\ RaceAt(p, "mkdir")
    /\ RaceStep(p, [race.proc[p] EXCEPT !.at = "write"])
    /\ UNCHANGED <<pc, outcome, env, resolver, store, projectSpec, req>>

\* line 63: the whole file is replaced
RaceWrite(p) ==
    /\ RaceAt(p, "write")
    /\ lkgFile' = File(race.proc[p].content[1])
    /\ race' = [race EXCEPT !.proc[p].at = "done", !.proc[p].result = VoidResult,
                            !.lastWriter = p]
    /\ UNCHANGED <<pc, outcome, env, resolver, lkg, lastActivation, projectSpec, req>>

\* lines 62-63: mkdir or writeFile fails
RaceWriteFail(p) ==
    /\ RaceAt(p, "mkdir") \/ RaceAt(p, "write")
    /\ RaceStep(p, [race.proc[p] EXCEPT !.at = "done", !.result = Throw("EACCES")])
    /\ UNCHANGED <<pc, outcome, env, resolver, store, projectSpec, req>>

RaceLocators ==
    {Locator(name, reference) : name \in SupportedPackageManagerSet,
                                reference \in {"1.1.0", "2.0.0"}}

\* the files the processes find: missing, and the documents without an entry or
\* with one for yarn
RaceFiles ==
    {MissingFile, File(JsonOther("invalid")), File(EmptyObject),
     File(JsonObject([n \in {"yarn"} |-> Str("1.1.0")])),
     File(JsonObject([n \in {"yarn"} |-> NotAString])),
     File(JsonArray(<<>>, <<>>))}

InitRace ==
    /\ pc = <<"idle">>
    /\ outcome = NoOutcome
    /\ env = NoEnv
    /\ installed = [n \in SupportedPackageManagerSet |-> {}]
    /\ rd = RdFrame(NoDescriptor, FALSE, FALSE)
    /\ prev = NoCall
    /\ lkgFile \in RaceFiles
    /\ lkg = NoLkgFrame
    /\ lastActivation = NoActivation
    /\ project = NoProject
    /\ epm = EpmFrame(NoLocator)
    /\ fps = NoFps
    /\ req = NoReq
    /\ \E locators \in [Procs -> RaceLocators] :
          race = [proc |-> [p \in Procs |-> RaceFrame("read", locators[p])],
                  lastWriter |-> 0]

NextRace ==
    \E p \in Procs :
        \/ RaceRead(p)
        \/ RaceSet(p)
        \/ RaceMkdir(p)
        \/ RaceWrite(p)
        \/ RaceWriteFail(p)

SpecRace == InitRace /\ [][NextRace]_vars

(***************************************************************************)
(* CacheCommand.execute (commands/Cache.ts:20-22): the install folder is   *)
(* removed, by this process between two calls or by another one meanwhile. *)
(***************************************************************************)
CacheClean ==
    /\ \E n \in SupportedPackageManagerSet : installed[n] # {}
    /\ installed' = [n \in SupportedPackageManagerSet |-> {}]
    /\ UNCHANGED <<pc, outcome, env, rd, prev, store, projectSpec, dispatch>>

(***************************************************************************)
(* Calls of resolveDescriptor, one after the other.                        *)
(***************************************************************************)
\* a process starts and calls resolveDescriptor
CallResolveDescriptor ==
    /\ At("idle")
    /\ \E name \in Names, range \in RangeStrings, allowTags, useCache \in BOOLEAN, e \in Envs :
          /\ rd' = RdFrame(Descriptor(name, range), allowTags, useCache)
          /\ env' = e
    /\ pc' = <<"rd_start", "done">>
    /\ outcome' = NoOutcome
    /\ UNCHANGED <<installed, prev, store, projectSpec, dispatch>>

\* the process ends
Finish ==
    /\ At("done")
    /\ pc' = <<"idle">>
    /\ outcome' = NoOutcome
    /\ env' = NoEnv
    /\ rd' = RdFrame(NoDescriptor, FALSE, FALSE)
    /\ prev' = NoCall
    /\ UNCHANGED <<installed, store, projectSpec, dispatch>>

InitResolve ==
    /\ pc = <<"idle">>
    /\ outcome = NoOutcome
    /\ env = NoEnv
    /\ installed \in RequestFolders
    /\ rd = RdFrame(NoDescriptor, FALSE, FALSE)
    /\ prev = NoCall
    /\ lkgFile = MissingFile
    /\ lkg = NoLkgFrame
    /\ lastActivation = NoActivation
    /\ project = NoProject
    /\ epm = EpmFrame(NoLocator)
    /\ fps = NoFps
    /\ req = NoReq
    /\ race = NoRace

NextResolve ==
    \/ CallResolveDescriptor
    \/ ResolveDescriptor
    \/ Finish
    \/ CacheClean

SpecResolve == InitResolve /\ [][NextResolve]_vars

\* the functions of the Last-Known-Good file, called one after the other
InitStore ==
    /\ pc = <<"idle">>
    /\ outcome = NoOutcome
    /\ env = NoEnv
    /\ installed = [n \in SupportedPackageManagerSet |-> {}]
    /\ rd = RdFrame(NoDescriptor, FALSE, FALSE)
    /\ prev = NoCall
    /\ lkgFile \in LkgFiles
    /\ lkg = NoLkgFrame
    /\ lastActivation = NoActivation
    /\ project = NoProject
    /\ epm = EpmFrame(NoLocator)
    /\ fps = NoFps
    /\ req = NoReq
    /\ race = NoRace

NextStore ==
    \/ CallGetLastKnownGood
    \/ CallActivatePackageManager
    \/ CallGetDefaultVersion
    \/ LastKnownGood
    \/ OtherProcessActivates
    \/ FinishStore

SpecStore == InitStore /\ [][NextStore]_vars

(***************************************************************************)
(* Two calls of resolveDescriptor in a row, for a tag and for a version:   *)
(* what the call for a tag found is kept for the next call.                *)
(***************************************************************************)
CallResolveKnown ==
    /\ At("idle")
    /\ \E name \in SupportedPackageManagerSet, range \in TagNames \cup VersionStrings,
          allowTags, useCache \in BOOLEAN :
          rd' = RdFrame(Descriptor(name, range), allowTags, useCache)
    /\ pc' = <<"rd_start", "done">>
    /\ outcome' = NoOutcome
    /\ UNCHANGED <<env, installed, prev, store, projectSpec, dispatch>>

FinishKeep ==
    /\ At("done")
    /\ pc' = <<"idle">>
    /\ outcome' = NoOutcome
    /\ rd' = RdFrame(NoDescriptor, FALSE, FALSE)
    /\ prev' = IF rd.tags # <<>> /\ hasOwn(rd.tags[1], rd.descriptor.range)
               THEN [descriptor |-> rd.descriptor, useCache |-> rd.useCache,
                     target |-> rd.tags[1][rd.descriptor.range],
                     folder |-> rd.folder, result |-> rd.result]
               ELSE NoCall
    /\ UNCHANGED <<env, installed, store, projectSpec, dispatch>>

NextTagPair ==
    \/ CallResolveKnown
    \/ RdStart
    \/ RdTags
    \/ RdTagsFail
    \/ RdCache
    \/ FinishKeep
    \/ CacheClean

SpecTagPair == InitResolve /\ [][NextTagPair]_vars

(***************************************************************************)
(* Properties of resolveDescriptor, stated on the frame of a call that     *)
(* has ended.                                                              *)
(***************************************************************************)
RdEnded == rd.via # ""
\* the call was given a version, a range or a tag for a supported package manager
RdSupported ==
    /\ RdEnded
    /\ isSupportedPackageManager(rd.descriptor.name)
    /\ rd.descriptor.range \notin UrlStrings
Elements(list) == {list[i] : i \in DOMAIN list}
\* the install folder as the call read it
RdFolder == IF rd.folder = <<>> THEN {} ELSE rd.folder[1]

\* C1, as stated: for an exact version the Locator returned has the same name
\* and the version unchanged as its reference, and no network call is made,
\* whatever the cache, allowTags and useCache.
C1_ExactUnchanged ==
    (RdSupported /\ semverValid(rd.descriptor.range)) =>
        /\ rd.result = Locator(rd.descriptor.name, rd.descriptor.range)
        /\ rd.net = NoNet

\* C1, amended: for an exact version the Locator returned has the same name and
\* a reference of the same semantic version, and no network call is made; the
\* reference is the range itself unless useCache is set and the install folder
\* holds a version the range accepts, and then it is that installed version,
\* which may lack the build metadata of the range.
C1_ExactSameVersion ==
    (RdSupported /\ semverValid(rd.descriptor.range)) =>
        /\ rd.result.t = "Locator"
        /\ rd.result.name = rd.descriptor.name
        /\ semverRcompare(rd.result.reference, rd.descriptor.range) = 0
        /\ \/ rd.result.reference = rd.descriptor.range
           \/ /\ rd.useCache
              /\ rd.result.reference \in RdFolder
              /\ SemverParse(rd.result.reference).build # SemverParse(rd.descriptor.range).build
        /\ (~rd.useCache \/ rd.cachedVersion = Null) =>
              rd.result.reference = rd.descriptor.range
        /\ rd.net = NoNet

\* an exact version with build metadata, answered from the install folder
C1_Witness ==
    /\ RdSupported
    /\ rd.descriptor.range \in HashedVersions
    /\ rd.via = "cache"
    /\ rd.result.reference # rd.descriptor.range

\* C2: for a version range that an installed version satisfies, the call with
\* useCache returns that installed version and makes no network call; without
\* useCache no call ever returns through the cache shortcut.
C2_CacheShortcut ==
    /\ (/\ RdSupported
        /\ semverValidRange(rd.descriptor.range)
        /\ \E v \in RdFolder : RangeTest(rd.descriptor.range, v)
        /\ rd.useCache) =>
            /\ rd.via = "cache"
            /\ rd.result = Locator(rd.descriptor.name, rd.cachedVersion)
            /\ rd.cachedVersion \in RdFolder
            /\ RangeTest(rd.descriptor.range, rd.cachedVersion)
            /\ rd.net = NoNet
    /\ (RdEnded /\ ~rd.useCache) => rd.via # "cache"

\* a range answered from the install folder
C2_Witness ==
    /\ RdSupported
    /\ rd.descriptor.range \in RangeExprs
    /\ rd.useCache
    /\ rd.via = "cache"
    /\ rd.result.t = "Locator"

\* the versions the registries answered with that the working range accepts
RdUnion ==
    {v \in UNION {Elements(rd.fetched[i]) : i \in DOMAIN rd.fetched} :
        satisfiesWithPrereleases(v, rd.finalDescriptor.range)}

\* C3: once at the fan-out the registry of every range key has been asked once;
\* and whatever the order of the answers, the call returns the highest version
\* of the union of the accepted answers, and null exactly when the union is empty.
C3_HighestOfUnion ==
    /\ (At("rd_fanout") \/ rd.via \in {"registry", "null"}) =>
          LET keys == RangeKeys(rd.finalDescriptor.name) IN
          /\ ~semverValid(rd.finalDescriptor.range)
          /\ ~CacheShortcut(rd.cachedVersion, rd.useCache)
          /\ rd.net.versions =
                [i \in DOMAIN keys |->
                    getRegistryFromPackageManagerSpec(rd.finalDescriptor.name, keys[i])]
    /\ rd.via \in {"registry", "null"} =>
          /\ (RdUnion = {}) <=> (rd.result = NullValue)
          /\ RdUnion # {} =>
                /\ rd.result.t = "Locator"
                /\ rd.result.name = rd.descriptor.name
                /\ rd.result.reference \in RdUnion
                /\ \A w \in RdUnion : semverRcompare(rd.result.reference, w) <= 0

\* both registries had accepted versions, the second answered first, and the
\* highest version came from the list that was not the first to arrive
C3_Witness ==
    /\ rd.via = "registry"
    /\ rd.order = <<2, 1>>
    /\ rd.versions[1] # <<>>
    /\ rd.versions[2] # <<>>
    /\ Cardinality(RdUnion) >= 2
    /\ rd.result.reference \in Elements(rd.versions[1])

\* C5: for a tag, without allowTags the call fails with TagsNotAllowed before
\* any network or cache call; with allowTags the tag map is asked of the last
\* range key's registry and a tag absent from it fails with TagNotFound; in
\* neither case is a Locator returned.
C5_TagErrors ==
    (RdSupported /\ IsTagRange(rd.descriptor.range)) =>
        /\ ~rd.allowTags =>
              /\ rd.result = Throw("TagsNotAllowed")
              /\ rd.net = NoNet
              /\ rd.folder = <<>>
        /\ rd.allowTags =>
              LET keys == RangeKeys(rd.descriptor.name) IN
              rd.net.tags =
                 <<getRegistryFromPackageManagerSpec(rd.descriptor.name, keys[Len(keys)])>>
        /\ (rd.allowTags /\ rd.tags # <<>> /\ ~hasOwn(rd.tags[1], rd.descriptor.range)) =>
              /\ rd.result = Throw("TagNotFound")
              /\ rd.folder = <<>>

\* a tag the fetched map does not hold
C5_Witness ==
    /\ RdSupported
    /\ rd.descriptor.name = "yarn"
    /\ rd.descriptor.range \in TagNames
    /\ rd.allowTags
    /\ rd.tags # <<>>
    /\ rd.result = Throw("TagNotFound")

\* C6: a Locator returned for a version, range or tag of a supported package
\* manager has an exact version as its reference, never a range or a tag.
C6_ReferenceIsExact ==
    (RdSupported /\ rd.result.t = "Locator") =>
        /\ semverValid(rd.result.reference)
        /\ rd.result.reference \notin RangeExprs \cup TagNames

\* a range resolved through the registries
C6_Witness ==
    /\ RdSupported
    /\ rd.descriptor.range \in RangeExprs
    /\ rd.via = "registry"
    /\ rd.result.t = "Locator"

\* the call that ended is for the version the tag of the call before mapped
\* to, with the same useCache and the same install folder
RdAfterItsTag ==
    /\ RdEnded
    /\ prev.result.t # "none"
    /\ rd.descriptor = Descriptor(prev.descriptor.name, prev.target)
    /\ rd.useCache = prev.useCache
    /\ rd.folder = prev.folder

\* C4: with allowTags, resolving a tag the registry knows gives the result of
\* resolving the version the tag maps to, under the same cache and registry.
C4_TagEquivalent == RdAfterItsTag => rd.result = prev.result

\* the version a tag mapped to, found installed by both calls
C4_Witness ==
    /\ RdAfterItsTag
    /\ prev.descriptor.range = "next"
    /\ rd.via = "cache"
    /\ rd.result.t = "Locator"

(***************************************************************************)
(* Claims about the Last-Known-Good file, under SpecStore.                 *)
(***************************************************************************)
LkgEnded(fn) == At("done") /\ lkg.fn = fn /\ lkg.result # NoOutcome

\* the value the file holds for a package manager
Stored(file, name, value) ==
    /\ file.kind = "file"
    /\ file.content.js \in {"object", "array"}
    /\ hasOwn(file.content.entries, name)
    /\ file.content.entries[name] = value

TwiceInSequence ==
    /\ LkgEnded("activatePackageManager")
    /\ lkg.result = VoidResult
    /\ ~lkg.disturbed
    /\ lastActivation.result = VoidResult
    /\ lastActivation.name = lkg.name
    /\ lastActivation.reference = lkg.reference

\* C8: when the same locator was activated twice in sequence and nothing else
\* wrote the file in between, the two activations together wrote the file once
\* (never, if the file held the reference before the first), and the file then
\* holds the reference for the package manager
C8_ActivateIdempotent ==
    TwiceInSequence =>
        /\ lastActivation.writes + lkg.writes = (IF lastActivation.held THEN 0 ELSE 1)
        /\ Stored(lkgFile, lkg.name, Str(lkg.reference))

\* C9: getLastKnownGood returns the empty object when the file is missing or is
\* not JSON; of a document that is an object it keeps every entry that is a
\* string as it is and drops every other; it throws only when the file is there
\* and cannot be read
C9_LoadNeverRaises ==
    lkg.read # <<>> =>
        LET file == lkg.read[1]
            content == file.content
            loaded == lkg.loaded
        IN  /\ (file.kind = "missing" \/ (file.kind = "file" /\ content.js = "invalid"))
                   => loaded = StoreResult(EmptyObject)
            /\ (file.kind = "file" /\ content.js \in {"object", "array"}) =>
                   /\ loaded.t = "Store"
                   /\ loaded.value.js = content.js
                   /\ DOMAIN loaded.value.entries =
                          {k \in DOMAIN content.entries : content.entries[k][1] = "string"}
                   /\ \A k \in DOMAIN loaded.value.entries :
                          loaded.value.entries[k] = content.entries[k]
                   /\ DOMAIN loaded.value.items = DOMAIN content.items
                   /\ \A i \in DOMAIN content.items :
                          loaded.value.items[i] =
                              IF content.items[i][1] = "string" THEN content.items[i] ELSE Hole
            /\ loaded.t = "throw" <=> file.kind = "unreadable"

\* a file with an entry that is a string and one that is not was loaded
C9_Witness ==
    /\ LkgEnded("getLastKnownGood")
    /\ lkg.read = <<File(JsonObject([n \in SupportedPackageManagerSet |->
                                        IF n = "yarn" THEN Str("1.1.0") ELSE NotAString]))>>
    /\ lkg.result = StoreResult(JsonObject([n \in {"yarn"} |-> Str("1.1.0")]))

\* C10: when the object loaded has an entry for a supported package manager,
\* getDefaultVersion returns that entry, whatever its value, asks for no latest
\* version and writes nothing; and after an activation of a package manager that
\* returned, getDefaultVersion of it returns the reference activated until
\* something else is activated
C10_ReturnsEntry ==
    LkgEnded("getDefaultVersion") =>
        /\ (/\ isSupportedPackageManager(lkg.name)
            /\ lkg.loaded.t = "Store"
            /\ hasOwn(lkg.loaded.value.entries, lkg.name))
               => /\ lkg.result = StringResult(lkg.loaded.value.entries[lkg.name][2])
                  /\ lkg.latest = <<>>
                  /\ lkg.writes = 0
        /\ (/\ ~lkg.disturbed
            /\ lastActivation.result = VoidResult
            /\ lastActivation.name = lkg.name)
               => lkg.result = StringResult(lastActivation.reference)

(***************************************************************************)
(* Claims about findProjectSpec, under SpecProject.                        *)
(***************************************************************************)
FpsEnded == At("done") /\ fps.result # NoOutcome
FpsFound == FpsEnded /\ fps.loaded # <<>> /\ fps.loaded[1].type = "Found"

\* C7: when loadSpec found a project whose package manager is not the
\* locator's, findProjectSpec throws ProjectPackageManagerMismatch naming the
\* project's file if the caller did not ask for a transparent call and
\* COREPACK_ENABLE_STRICT is not "0", and returns the fallback descriptor
\* otherwise; when the names are the same it returns the project's descriptor
\* as it is, transparent or not
C7_FoundOutcome ==
    FpsFound =>
        LET found == fps.loaded[1] IN
        IF found.spec.name # fps.locator.name
        THEN IF ~fps.given /\ env.COREPACK_ENABLE_STRICT # "0"
             THEN /\ fps.result.t = "throw"
                  /\ fps.result.error = "ProjectPackageManagerMismatch"
                  /\ fps.result.target = found.target
             ELSE fps.result = [t |-> "Descriptor", name |-> fps.locator.name,
                                range |-> fps.locator.reference]
        ELSE fps.result = [t |-> "Descriptor", name |-> found.spec.name,
                           range |-> found.spec.range]

\* a call that was not transparent itself found another package manager's
\* project with strict mode switched off, and returned the fallback descriptor
C7_Witness ==
    /\ FpsFound
    /\ fps.loaded[1].spec.name # fps.locator.name
    /\ ~fps.given
    /\ env.COREPACK_ENABLE_STRICT = "0"
    /\ fps.result = [t |-> "Descriptor", name |-> fps.locator.name,
                     range |-> fps.locator.reference]

(***************************************************************************)
(* Claims about getPackageManagerSpecFor, under SpecProject.               *)
(***************************************************************************)
\* getPackageManagerSpecFor was called with a locator of a supported package
\* manager
SpecLookedUp ==
    /\ epm.spec # NoOutcome
    /\ isSupportedPackageManager(epm.locator.name)
    /\ epm.locator.reference \notin UrlStrings

\* the positions of the range keys the reference satisfies
Satisfied(locator) ==
    {i \in DOMAIN RangeKeys(locator.name) :
        satisfiesWithPrereleases(locator.reference, RangeKeys(locator.name)[i])}

\* C17: for a locator of a supported package manager getPackageManagerSpecFor
\* returns the spec of the range key declared last among those the reference
\* satisfies, and throws the assertion failure when it satisfies none
C17_LastSatisfiedKeyWins ==
    SpecLookedUp =>
        IF Satisfied(epm.locator) = {}
        THEN epm.spec = Throw("AssertionFailed")
        ELSE /\ epm.spec.t = "spec"
             /\ epm.spec.name = epm.locator.name
             /\ \E i \in Satisfied(epm.locator) :
                   /\ \A j \in Satisfied(epm.locator) : j <= i
                   /\ epm.spec.range = RangeKeys(epm.locator.name)[i]

\* a reference that satisfies both range keys of pnpm got the spec of the second
C17_Witness ==
    /\ SpecLookedUp
    /\ epm.locator.name = "pnpm"
    /\ Satisfied(epm.locator) = {1, 2}
    /\ epm.spec.range = ">=2.0.0"

(***************************************************************************)
(* Claims about the project without a packageManager field, under          *)
(* SpecProject.                                                            *)
(***************************************************************************)
FpsNoSpec == fps.loaded # <<>> /\ fps.loaded[1].type = "NoSpec"
FpsFallback == [t |-> "Descriptor", name |-> fps.locator.name, range |-> fps.locator.reference]

\* C13: when loadSpec found a project without the field, findProjectSpec
\* returns the fallback descriptor with COREPACK_ENABLE_AUTO_PIN "0" and,
\* once the fallback was resolved and installed, without it; the field is
\* written only with auto-pin on, after resolveDescriptor (tags allowed)
\* returned a locator for the fallback and ensurePackageManager installed it,
\* in the directory of the file found and with the installed locator; with
\* auto-pin off nothing is resolved, installed or written
C13_AutoPin ==
    FpsNoSpec =>
        /\ (FpsEnded /\ env.COREPACK_ENABLE_AUTO_PIN = "0") =>
               /\ fps.result = FpsFallback
               /\ rd.descriptor = NoDescriptor
               /\ epm.spec = NoOutcome
               /\ fps.pinned = <<>>
               /\ project = fps.loaded[1]
        /\ (FpsEnded /\ env.COREPACK_ENABLE_AUTO_PIN # "0" /\ fps.installSpec # NoOutcome) =>
               fps.result = FpsFallback
        /\ fps.pinned # <<>> =>
               /\ env.COREPACK_ENABLE_AUTO_PIN # "0"
               /\ rd.descriptor = Descriptor(fps.locator.name, fps.locator.reference)
               /\ rd.allowTags
               /\ rd.result.t = "Locator"
               /\ epm.locator = rd.result
               /\ fps.installSpec.t = "InstallSpec"
               /\ \E hash \in Hashes :
                     fps.installSpec.locator.reference =
                         NoHashReference(rd.result.reference) \o "+" \o hash
               /\ fps.pinned = <<"/project", fps.installSpec.locator>>
        /\ project # fps.loaded[1] =>
               /\ fps.pinned # <<>>
               /\ project = Found(fps.loaded[1].target,
                                  Descriptor(fps.pinned[2].name, fps.pinned[2].reference))

\* C14: once setLocalPackageManager was called, findProjectSpec returns the
\* fallback descriptor whether the write went through or failed
C14_PinFailureSwallowed ==
    (FpsEnded /\ FpsNoSpec /\ fps.pinned # <<>>) => fps.result = FpsFallback

(***************************************************************************)
(* Claims about the default version without an entry, under SpecStore.     *)
(***************************************************************************)
GdvNoEntry ==
    /\ LkgEnded("getDefaultVersion")
    /\ isSupportedPackageManager(lkg.name)
    /\ lkg.loaded.t = "Store"
    /\ lkg.name \notin DOMAIN lkg.loaded.value.entries

\* C15: when the object loaded has no entry for the package manager,
\* getDefaultVersion returns definition.default, asking for no latest version
\* and writing nothing, if COREPACK_DEFAULT_TO_LATEST is "0"; otherwise it
\* returns the version fetchLatestStableVersion answered, whether the file
\* could be written or not
C15_LatestOrDefault ==
    GdvNoEntry =>
        IF env.COREPACK_DEFAULT_TO_LATEST = "0"
        THEN /\ lkg.result = [t |-> "string", value |-> DefaultVersion(lkg.name)]
             /\ lkg.latest = <<>>
             /\ lkg.writes = 0
        ELSE /\ Len(lkg.latest) = 1
             /\ lkg.latest[1] # Null => lkg.result = [t |-> "string", value |-> lkg.latest[1]]
             /\ lkg.latest[1] = Null => lkg.result.t = "throw"

\* the latest version was fetched and returned although the file could not be
\* written
C15_Witness ==
    /\ GdvNoEntry
    /\ lkg.latest = <<"2.0.0">>
    /\ lkg.content # <<>>
    /\ lkg.writes = 0
    /\ lkgFile = MissingFile
    /\ lkg.result = [t |-> "string", value |-> "2.0.0"]

(***************************************************************************)
(* Claims about executePackageManagerRequest, under SpecRequest.           *)
(***************************************************************************)
ReqEnded == At("done") /\ req.result # NoOutcome
\* resolveDescriptor runs for the request itself (line 318)
ReqResolving == Len(pc) >= 2 /\ pc[2] = "req_resolved"

\* C11: the descriptor given to resolveDescriptor at line 318 has the range
\* binaryVersion when the request names one, whatever findProjectSpec
\* returned, and the range findProjectSpec returned when it names none
C11_OverrideWins ==
    ReqResolving =>
        /\ rd.descriptor.name = req.found.name
        /\ rd.descriptor.range =
              IF req.binaryVersion # Null THEN req.binaryVersion ELSE req.found.range

\* the project's own descriptor came back and the version asked for replaced
\* its range
C11_Witness ==
    /\ ReqResolving
    /\ req.binaryVersion = "0.9.0"
    /\ req.found = [t |-> "Descriptor", name |-> "yarn", range |-> "2.0.0+sha1.bb"]
    /\ fps.via = "Found"
    /\ rd.descriptor = Descriptor("yarn", "0.9.0")

\* the classification of lines 293-311 has been made
ReqClassified == req.packageManager # Null /\ req.defaultVersion # Undefined

\* some declared pattern is the binary name followed by a prefix of the arguments
SomePatternIsPrefix ==
    \E i \in DOMAIN TransparentCommands(req.packageManager) :
        LET p == TransparentCommands(req.packageManager)[i] IN
        /\ Len(p) >= 1
        /\ p[1] = req.binaryName
        /\ Len(p) - 1 <= Len(req.args)
        /\ SubSeq(req.args, 1, Len(p) - 1) = Tail(p)

\* C12: the command is transparent exactly when a declared pattern is the
\* binary name followed by the first arguments, position by position (so a
\* pattern longer than the command never matches); the fallback reference is
\* definition.transparent.default when the command is transparent and that
\* default is set, and otherwise the version asked for or, without one, what
\* getDefaultVersion returned
C12_TransparentCommand ==
    ReqClassified =>
        /\ req.isTransparentCommand <=> SomePatternIsPrefix
        /\ fps.given = req.isTransparentCommand
        /\ req.fallbackLocator.name = req.packageManager
        /\ req.fallbackLocator.reference =
              IF SomePatternIsPrefix /\ TransparentDefault(req.packageManager) # Undefined
              THEN TransparentDefault(req.packageManager)
              ELSE IF req.binaryVersion # Null THEN req.binaryVersion
              ELSE lkg.result.value

\* yarn dlx foo: the pattern yarn dlx is a prefix, the reference is the
\* transparent default
C12_Witness ==
    /\ ReqClassified
    /\ req.packageManager = "yarn"
    /\ req.binaryName = "yarn"
    /\ req.args = <<"dlx", "foo">>
    /\ req.binaryVersion = Null
    /\ req.isTransparentCommand
    /\ req.fallbackLocator = Locator("yarn", "2.0.0+sha1.bb")

\* C16: a locator resolveDescriptor returned to the request for a supported
\* package manager satisfies one of its range keys, and the lookup of
\* ensurePackageManager does not throw the assertion failure
C16_ResolvedHasRangeKey ==
    (req.resolved.t = "Locator" /\ isSupportedPackageManager(req.resolved.name)) =>
        /\ Satisfied(req.resolved) # {}
        /\ epm.spec # Throw("AssertionFailed")

\* C19: runVersion is called at most once, with the locator resolveDescriptor
\* returned and what ensurePackageManager returned for it; when
\* resolveDescriptor returned null the request throws ResolutionFailed, and
\* when findProjectSpec, resolveDescriptor or ensurePackageManager threw the
\* request throws the same, runVersion not called
C19_RunOnceAfterInstall ==
    /\ Len(req.runs) <= 1
    /\ req.runs # <<>> =>
          /\ req.resolved.t = "Locator"
          /\ epm.locator = req.resolved
          /\ epm.spec.t = "spec"
          /\ req.installSpec.t = "InstallSpec"
          /\ req.installSpec.locator.name = req.resolved.name
          /\ req.runs = <<<<req.resolved, req.installSpec>>>>
    /\ (ReqEnded /\ req.resolved = NullValue) =>
          req.result = Throw("ResolutionFailed") /\ req.runs = <<>>
    /\ (ReqEnded /\ req.resolved.t = "throw") =>
          req.result = req.resolved /\ req.runs = <<>>
    /\ (ReqEnded /\ req.found = NoOutcome) =>
          req.result.t = "throw" /\ req.runs = <<>> /\ req.resolved = NoOutcome
    /\ (ReqEnded /\ req.found = NoOutcome /\ fps.result.t = "throw") =>
          req.result = fps.result
    /\ (ReqEnded /\ req.resolved.t = "Locator" /\ req.installSpec = NoOutcome) =>
          req.result.t = "throw" /\ req.runs = <<>>

\* the binary ran, once, and the request returned
C19_Witness ==
    /\ ReqEnded
    /\ req.result = VoidResult
    /\ Len(req.runs) = 1
    /\ req.resolved.reference \in installed[req.resolved.name]

\* C20: once ensurePackageManager returned to the request for a supported
\* package manager, the Last-Known-Good file holds the reference resolved and
\* installed for it
C20_RecordedAfterInstall ==
    (ReqEnded /\ req.installSpec.t = "InstallSpec"
              /\ isSupportedPackageManager(req.resolved.name)) =>
        \/ Stored(lkgFile, req.resolved.name, Str(req.resolved.reference))
        \/ Stored(lkgFile, req.resolved.name, Str(req.installSpec.locator.reference))

(***************************************************************************)
(* Claims about activations at the same time, under SpecRace.              *)
(***************************************************************************)
\* C18: however the activations of the processes interleave, once a process
\* has written the file it holds what the last writer read plus the last
\* writer's own entry, and nothing else
C18_LastWriterWins ==
    race.lastWriter # 0 =>
        LET writer == race.proc[race.lastWriter]
            snapshot == writer.snapshot[1]
        IN  /\ lkgFile.kind = "file"
            /\ DOMAIN lkgFile.content.entries =
                   DOMAIN snapshot.entries \cup {writer.locator.name}
            /\ \A name \in DOMAIN lkgFile.content.entries :
                   lkgFile.content.entries[name] =
                       IF name = writer.locator.name
                       THEN <<"string", writer.locator.reference>>
                       ELSE snapshot.entries[name]

====
